---- MODULE Spec2Model ----
\* wpokt-monitor: the wallet-connection wrapper (WagmiWrapper.tsx) and the
\* mint-status panel (MintPanel.tsx) as state machines.
\*
\*   Spec       the mint action of MintPanel: mintTokens invocations, their
\*              write / receipt completions, toasts, the nonce map
\*   SpecTable  the table of MintPanel: one row over the whole input universe
\*   SpecShell  WagmiConnectionManager and the clipboard part of MintPanel
EXTENDS Integers, Sequences, FiniteSets, TLC

VARIABLES
    mints,          \* useAllMints().mints: the array of Mint records
    loading,        \* useAllMints().loading
    nonceMap,       \* useWPOKTNonceMap(): lowercase address -> bigint | undefined
    refreshCount,   \* useState(0): the nonce map's refresh trigger
    isLoading,      \* useState(false)
    currentMintId,  \* useState<string | null>(null)
    toasts,         \* the toasts on screen, oldest first (their status)
    account,        \* useAccount().address as seen by MintPanel
    walletClient,   \* useWalletClient().data is defined
    calls,          \* the invocations of mintTokens made so far, in order
    address,        \* useAccount().address as seen by WagmiConnectionManager
    chain,          \* useNetwork().chain
    memo,           \* useMemo cell of isInvalidNetwork: its dependency and value
    canSwitch,      \* useSwitchNetwork().switchNetwork is defined
    switching,      \* useSwitchNetwork().isLoading
    value,          \* useClipboard(): the text area's value
    hasCopied,      \* useClipboard(): the copied-state flag
    clipboard       \* the system clipboard's text

panelVars == <<mints, loading, nonceMap, refreshCount, isLoading, currentMintId,
               toasts, account, walletClient, calls>>
shellVars == <<address, chain, memo, canSwitch, switching, value, hasCopied, clipboard>>
vars == <<panelVars, shellVars>>

-----------------------------------------------------------------------------
\* Bounds of the model.

\* largest on-chain nonce the nonce lookup returns
MaxNonce == 2
\* largest number of collected signatures of a mint
MaxSigs == 2
\* number of mintTokens invocations in one behaviour
MaxCalls == 2

-----------------------------------------------------------------------------
\* JavaScript values.

\* undefined, for a bigint
Unknown == -1
\* undefined / null, for an array (a number stands for an array of that length)
Null == -1
\* undefined, for a string of digits
Undefined == <<-1>>
\* undefined / null, for a string
NoString == "undefined"
\* null, for currentMintId
NoMint == "null"

\* truthiness of a bigint | undefined: 0n and undefined are falsy
TruthyBigInt(n) == n # Unknown /\ n # 0
\* truthiness of a string | undefined: "" and undefined are falsy
TruthyDigits(s) == s # Undefined /\ Len(s) > 0
\* truthiness of an array | undefined: every array, [] included, is truthy
TruthyArray(a) == a # Null
\* truthiness of a string / object | undefined
TruthyString(s) == s # NoString /\ s # ""

\* BigInt(s) of a string of decimal digits; BigInt("") is 0n
RECURSIVE BigInt(_)
BigInt(s) ==
    IF Len(s) = 0 THEN 0
    ELSE 10 * BigInt(SubSeq(s, 1, Len(s) - 1)) + s[Len(s)]

\* String.prototype.toLowerCase on one character of a hex address
LowerChar(c) ==
    CASE c = "A" -> "a" [] c = "B" -> "b" [] c = "C" -> "c"
      [] c = "D" -> "d" [] c = "E" -> "e" [] c = "F" -> "f"
      [] OTHER -> c
ToLowerCase(s) == [i \in DOMAIN s |-> LowerChar(s[i])]

\* obj[key] of a Record<string, bigint>: undefined for a missing key
Lookup(map, key) == IF key \in DOMAIN map THEN map[key] ELSE Unknown

-----------------------------------------------------------------------------
\* Input universes.

Addresses == { <<"0", "x", "A", "1">>, <<"0", "x", "a", "1">>, <<"0", "x", "b", "2">> }
LowerAddresses == { ToLowerCase(a) : a \in Addresses }
NonceDigits == 0..2
NonceStrings ==
    { <<>> } \cup { <<d>> : d \in NonceDigits }
             \cup { <<d, e>> : d \in 0..1, e \in NonceDigits }
Statuses == { "pending", "confirmed", "signed", "completed" }

Mint(id, recipient, nonce, status, signatures, data) ==
    [ _id |-> id, recipient_address |-> recipient, nonce |-> nonce,
      status |-> status, signatures |-> signatures, data |-> data ]

-----------------------------------------------------------------------------
\* MintPanel: what a render shows for a row (MintPanel.tsx 199-309).

\* const nonce = nonceMap[mint.recipient_address.toLowerCase()]
Nonce(mint) == Lookup(nonceMap, ToLowerCase(mint.recipient_address))

IsMintNotReady(mint) ==
    IF TruthyBigInt(Nonce(mint))
    THEN ~TruthyDigits(mint.nonce) \/ BigInt(mint.nonce) > Nonce(mint) + 1
    ELSE TRUE

IsMintCompleted(mint) ==
    IF TruthyBigInt(Nonce(mint))
    THEN TruthyDigits(mint.nonce) /\ BigInt(mint.nonce) <= Nonce(mint)
    ELSE TRUE

\* mint.signatures.length of an undefined signatures throws a TypeError
ActionCellThrows(mint) ==
    /\ TruthyBigInt(Nonce(mint))
    /\ mint.status # "signed"
    /\ mint.status = "confirmed"
    /\ mint.signatures = Null

\* the signature count of a confirmed mint is not looked at
HasMintButtonAnyConfirmed(mint) ==
    /\ TruthyBigInt(Nonce(mint))
    /\ \/ mint.status = "signed"
       \/ mint.status = "confirmed"

\* the Action cell holds the Mint button, not the text N/A
HasMintButton(mint) ==
    /\ TruthyBigInt(Nonce(mint))
    /\ \/ mint.status = "signed"
       \/ mint.status = "confirmed" /\ mint.signatures >= 2

ButtonIsLoading(mint) == isLoading /\ mint._id = currentMintId
ButtonIsDisabled(mint) == IsMintNotReady(mint) \/ IsMintCompleted(mint)

\* {!loading && <Table>}
TableShown == ~loading
RenderThrows == TableShown /\ \E i \in DOMAIN mints : ActionCellThrows(mints[i])

\* the row's Mint button is on screen and takes a click
ButtonEnabled(mint) ==
    /\ TableShown
    /\ ~RenderThrows
    /\ HasMintButton(mint)
    /\ ~ButtonIsDisabled(mint)
    /\ ~ButtonIsLoading(mint)

-----------------------------------------------------------------------------
\* MintPanel: the mint action (MintPanel.tsx 58-127).

\* usePublicClient() always returns a client
publicClient == TRUE

Call(id, pc, result, w, e) ==
    [ mint |-> id, pc |-> pc, result |-> result,
      writeCalls |-> w, errorToasts |-> e, reloadCalls |-> 0, refreshCalls |-> 0,
      failedAt |-> "none" ]

\* toast({status}) and toast.closeAll()
Toast(ts, status) == Append(ts, status)
CloseAll(ts) == <<>>

\* the data / signatures check shows its toast and does not return
MintTokensNoReturn(i) ==
    LET mint == mints[i]
        shown == IF ~TruthyString(mint.data) \/ ~TruthyArray(mint.signatures)
                 THEN Toast(toasts, "error") ELSE toasts
        e == Len(shown) - Len(toasts)
    IN
    /\ ButtonEnabled(mint)
    /\ Len(calls) < MaxCalls
    /\ toasts' = shown
    /\ IF ~TruthyString(account) \/ ~walletClient \/ ~publicClient
       THEN /\ calls' = Append(calls, Call(mint._id, "done",
                                           IF e = 1 THEN "rejected" ELSE "returned", 0, e))
            /\ UNCHANGED <<isLoading, currentMintId>>
       ELSE /\ isLoading' = TRUE
            /\ currentMintId' = mint._id
            /\ calls' = Append(calls, Call(mint._id, "write", "none", 1, e))
    /\ UNCHANGED <<mints, loading, nonceMap, refreshCount, account, walletClient>>
    /\ UNCHANGED shellVars

\* onClick={() => mintTokens(mint)} up to the first await
MintTokens(i) ==
    LET mint == mints[i] IN
    /\ ButtonEnabled(mint)
    /\ Len(calls) < MaxCalls
    /\ IF ~TruthyString(mint.data) \/ ~TruthyArray(mint.signatures)
       THEN /\ toasts' = Toast(toasts, "error")
            /\ calls' = Append(calls, Call(mint._id, "done", "rejected", 0, 1))
            /\ UNCHANGED <<isLoading, currentMintId>>
       ELSE IF ~TruthyString(account) \/ ~walletClient \/ ~publicClient
       THEN /\ calls' = Append(calls, Call(mint._id, "done", "returned", 0, 0))
            /\ UNCHANGED <<toasts, isLoading, currentMintId>>
       ELSE /\ isLoading' = TRUE
            /\ currentMintId' = mint._id
            /\ calls' = Append(calls, Call(mint._id, "write", "none", 1, 0))
            /\ UNCHANGED toasts
    /\ UNCHANGED <<mints, loading, nonceMap, refreshCount, account, walletClient>>
    /\ UNCHANGED shellVars

\* finally { setIsLoading(false); setCurrentMintId(null) }
Finally ==
    /\ isLoading' = FALSE
    /\ currentMintId' = NoMint

\* walletClient.writeContract resolved with a hash: lines 83-98
WriteResolved(c) ==
    /\ calls[c].pc = "write"
    /\ toasts' = Toast(CloseAll(toasts), "loading")
    /\ calls' = [calls EXCEPT ![c].pc = "wait"]
    /\ UNCHANGED <<mints, loading, nonceMap, refreshCount, isLoading, currentMintId,
                   account, walletClient>>
    /\ UNCHANGED shellVars

\* the success path ends without refresh(c => c + 1)
ReceiptResolvedNoRefresh(c) ==
    /\ calls[c].pc = "wait"
    /\ toasts' = Toast(CloseAll(toasts), "success")
    /\ calls' = [calls EXCEPT ![c].pc = "done", ![c].result = "success"]
    /\ Finally
    /\ UNCHANGED <<mints, loading, nonceMap, refreshCount, account, walletClient>>
    /\ UNCHANGED shellVars

\* publicClient.waitForTransactionReceipt resolved: lines 102-109, then finally
ReceiptResolved(c) ==
    /\ calls[c].pc = "wait"
    /\ toasts' = Toast(CloseAll(toasts), "success")
    /\ refreshCount' = refreshCount + 1
    /\ calls' = [calls EXCEPT ![c].pc = "done", ![c].result = "success",
                              ![c].refreshCalls = @ + 1]
    /\ Finally
    /\ UNCHANGED <<mints, loading, nonceMap, account, walletClient>>
    /\ UNCHANGED shellVars

\* the cleanup sits at the end of the try block, not in finally
RejectedNoFinally(c) ==
    /\ calls[c].pc \in { "write", "wait" }
    /\ toasts' = Toast(CloseAll(toasts), "error")
    /\ calls' = [calls EXCEPT ![c].pc = "done", ![c].result = "failed",
                              ![c].errorToasts = @ + 1, ![c].failedAt = calls[c].pc]
    /\ UNCHANGED <<mints, loading, nonceMap, refreshCount, isLoading, currentMintId,
                   account, walletClient>>
    /\ UNCHANGED shellVars

\* either await rejected: catch (lines 110-120), then finally
Rejected(c) ==
    /\ calls[c].pc \in { "write", "wait" }
    /\ toasts' = Toast(CloseAll(toasts), "error")
    /\ calls' = [calls EXCEPT ![c].pc = "done", ![c].result = "failed",
                              ![c].errorToasts = @ + 1, ![c].failedAt = calls[c].pc]
    /\ Finally
    /\ UNCHANGED <<mints, loading, nonceMap, refreshCount, account, walletClient>>
    /\ UNCHANGED shellVars

\* a toast with duration 5000 leaves the screen; duration null never does
ToastExpires(k) ==
    /\ k \in DOMAIN toasts
    /\ toasts[k] # "loading"
    /\ toasts' = SubSeq(toasts, 1, k - 1) \o SubSeq(toasts, k + 1, Len(toasts))
    /\ UNCHANGED <<mints, loading, nonceMap, refreshCount, isLoading, currentMintId,
                   account, walletClient, calls>>
    /\ UNCHANGED shellVars

\* useWPOKTNonceMap delivers the on-chain nonce of an address
NonceFetched(a, n) ==
    /\ nonceMap[a] # n
    /\ nonceMap' = [nonceMap EXCEPT ![a] = n]
    /\ UNCHANGED <<mints, loading, refreshCount, isLoading, currentMintId, toasts,
                   account, walletClient, calls>>
    /\ UNCHANGED shellVars

\* <Button isLoading={loading} onClick={() => reload()}>
Reload ==
    /\ ~loading
    /\ loading' = TRUE
    /\ UNCHANGED <<mints, nonceMap, refreshCount, isLoading, currentMintId, toasts,
                   account, walletClient, calls>>
    /\ UNCHANGED shellVars

\* useAllMints delivers the list
MintsLoaded(list) ==
    /\ loading
    /\ loading' = FALSE
    /\ mints' = list
    /\ UNCHANGED <<nonceMap, refreshCount, isLoading, currentMintId, toasts,
                   account, walletClient, calls>>
    /\ UNCHANGED shellVars

\* the wallet provider connects, readies its wallet client, or disconnects
WalletChanged(a, w) ==
    /\ <<a, w>> # <<account, walletClient>>
    /\ w => TruthyString(a)
    /\ account' = a
    /\ walletClient' = w
    /\ UNCHANGED <<mints, loading, nonceMap, refreshCount, isLoading, currentMintId,
                   toasts, calls>>
    /\ UNCHANGED shellVars

-----------------------------------------------------------------------------
\* WagmiConnectionManager and InvalidNetwork (WagmiWrapper.tsx 10-54).
\* useNetwork().chain is <<>> for undefined and <<c>> for the chain object c.

\* DEFAULT_CHAIN of @/lib/web3: Goerli, the chain of the etherscan links
DEFAULT_CHAIN == [ id |-> 5, name |-> "Goerli" ]
ChainIds == { 1, 5, 137 }
ChainOf(id) == << [ id |-> id, name |-> IF id = 5 THEN "Goerli" ELSE "Other" ] >>

\* () => !!chain && chain.id !== DEFAULT_CHAIN.id
IsInvalidNetwork(c) == c # <<>> /\ c[1].id # DEFAULT_CHAIN.id

\* useMemo(f, []): f runs on the first render only
UseMemoNoDeps(cell, c) == cell

\* useMemo(f, [chain]): f runs again when the dependency has changed
UseMemo(cell, c) ==
    IF cell.dep = c THEN cell ELSE [ dep |-> c, val |-> IsInvalidNetwork(c) ]

\* the isInvalidNetwork branch is missing
RenderedNoNetworkCheck ==
    IF ~TruthyString(address) THEN "connect" ELSE "children"

\* what WagmiConnectionManager returns
Rendered ==
    IF ~TruthyString(address) THEN "connect"
    ELSE IF memo.val THEN "InvalidNetwork"
    ELSE "children"

\* the wallet provider connects: account and chain arrive together
Connected(a, id, sw) ==
    /\ ~TruthyString(address)
    /\ address' = a
    /\ chain' = ChainOf(id)
    /\ canSwitch' = sw
    /\ memo' = UseMemo(memo, chain')
    /\ UNCHANGED <<switching, value, hasCopied, clipboard>>
    /\ UNCHANGED panelVars

\* the wallet provider disconnects: account and chain are cleared
Disconnected ==
    /\ TruthyString(address)
    /\ address' = NoString
    /\ chain' = <<>>
    /\ canSwitch' = FALSE
    /\ switching' = FALSE
    /\ memo' = UseMemo(memo, chain')
    /\ UNCHANGED <<value, hasCopied, clipboard>>
    /\ UNCHANGED panelVars

\* the user changes the chain in the wallet
ChainChanged(id) ==
    /\ TruthyString(address)
    /\ chain # ChainOf(id)
    /\ chain' = ChainOf(id)
    /\ memo' = UseMemo(memo, chain')
    /\ UNCHANGED <<address, canSwitch, switching, value, hasCopied, clipboard>>
    /\ UNCHANGED panelVars

\* onSwitch: switchNetwork?.(DEFAULT_CHAIN.id)
OnSwitch ==
    /\ Rendered = "InvalidNetwork"
    /\ canSwitch
    /\ ~switching
    /\ switching' = TRUE
    /\ UNCHANGED <<address, chain, memo, canSwitch, value, hasCopied, clipboard>>
    /\ UNCHANGED panelVars

\* the wallet answers the switch request
SwitchSettled(ok) ==
    /\ switching
    /\ switching' = FALSE
    /\ chain' = IF ok THEN ChainOf(DEFAULT_CHAIN.id) ELSE chain
    /\ memo' = UseMemo(memo, chain')
    /\ UNCHANGED <<address, canSwitch, value, hasCopied, clipboard>>
    /\ UNCHANGED panelVars

-----------------------------------------------------------------------------
\* The copyable instruction of MintPanel (MintPanel.tsx 37, 129, 165-180).

CLI_CODE == "pocket accounts send-tx 92d75da9086b557764432b66b7d3703c1492771a ${POKT_MULTISIG_ADDRESS} 20000000 testnet 10000 '{address:0x3F9B2fea60325d733e61bC76598725c5430cD751,chain_id:5}' --remoteCLIURL https://node2.testnet.pokt.network"
Texts == { CLI_CODE, "", "pocket accounts send-tx mine" }

\* onChange={e => setValue(e.target.value)}
SetValue(text) ==
    /\ text # value
    /\ value' = text
    /\ UNCHANGED <<address, chain, memo, canSwitch, switching, hasCopied, clipboard>>
    /\ UNCHANGED panelVars

\* onCopy copies the constant and reports success whatever the outcome
OnCopyConstant(didCopy) ==
    /\ clipboard' = IF didCopy THEN CLI_CODE ELSE clipboard
    /\ hasCopied' = TRUE
    /\ UNCHANGED <<address, chain, memo, canSwitch, switching, value>>
    /\ UNCHANGED panelVars

\* onClick={() => onCopy()}: copies the hook's value, sets hasCopied to the outcome
OnCopy(didCopy) ==
    /\ clipboard' = IF didCopy THEN value ELSE clipboard
    /\ hasCopied' = didCopy
    /\ UNCHANGED <<address, chain, memo, canSwitch, switching, value>>
    /\ UNCHANGED panelVars

\* useClipboard's timeout resets the flag
CopiedTimeout ==
    /\ hasCopied
    /\ hasCopied' = FALSE
    /\ UNCHANGED <<address, chain, memo, canSwitch, switching, value, clipboard>>
    /\ UNCHANGED panelVars

-----------------------------------------------------------------------------
\* States after construction.

ShellInit ==
    /\ address = NoString
    /\ chain = <<>>
    /\ memo = [ dep |-> <<>>, val |-> FALSE ]
    /\ canSwitch = FALSE
    /\ switching = FALSE
    /\ value = CLI_CODE
    /\ hasCopied = FALSE
    /\ clipboard = ""

PanelInit ==
    /\ loading = FALSE
    /\ nonceMap = [ a \in LowerAddresses |-> Unknown ]
    /\ refreshCount = 0
    /\ isLoading = FALSE
    /\ currentMintId = NoMint
    /\ toasts = <<>>
    /\ account = NoString
    /\ walletClient = FALSE
    /\ calls = <<>>

-----------------------------------------------------------------------------
\* Spec: the mint action over a list of two mints of two recipients.

MintLists ==
    { << Mint("m1", <<"0", "x", "A", "1">>, <<2>>, "confirmed", 2, "data"),
         Mint("m2", <<"0", "x", "b", "2">>, <<0, 2>>, "signed", g, d) >> :
      g \in { Null, 0, MaxSigs }, d \in { NoString, "data" } }

Init ==
    /\ mints \in MintLists
    /\ PanelInit
    /\ ShellInit

Next ==
    \/ \E i \in DOMAIN mints : MintTokens(i)
    \/ \E c \in DOMAIN calls : WriteResolved(c)
    \/ \E c \in DOMAIN calls : ReceiptResolved(c)
    \/ \E c \in DOMAIN calls : Rejected(c)
    \/ \E k \in DOMAIN toasts : ToastExpires(k)
    \/ \E a \in LowerAddresses, n \in 0..MaxNonce : NonceFetched(a, n)
    \/ \E a \in { NoString, "0xUser" }, w \in BOOLEAN : WalletChanged(a, w)

Spec == Init /\ [][Next]_vars

-----------------------------------------------------------------------------
\* SpecTable: the table over every one-row list of the input universe.

TableLists ==
    { << Mint("m1", a, n, s, g, "data") >> :
      a \in Addresses, n \in NonceStrings \cup { Undefined }, s \in Statuses,
      g \in { Null } \cup 0..MaxSigs }

InitTable ==
    /\ mints \in TableLists
    /\ PanelInit
    /\ ShellInit

NextTable ==
    \/ Reload
    \/ \E list \in TableLists : MintsLoaded(list)
    \/ \E a \in LowerAddresses, n \in 0..MaxNonce : NonceFetched(a, n)

SpecTable == InitTable /\ [][NextTable]_vars

-----------------------------------------------------------------------------
\* SpecShell: the connection manager and the copyable instruction.

InitShell ==
    /\ mints = <<>>
    /\ PanelInit
    /\ ShellInit

NextShell ==
    \/ \E a \in { "0xUser" }, id \in ChainIds, sw \in BOOLEAN : Connected(a, id, sw)
    \/ Disconnected
    \/ \E id \in ChainIds : ChainChanged(id)
    \/ OnSwitch
    \/ \E ok \in BOOLEAN : SwitchSettled(ok)
    \/ \E text \in Texts : SetValue(text)
    \/ \E didCopy \in BOOLEAN : OnCopy(didCopy)
    \/ CopiedTimeout

SpecShell == InitShell /\ [][NextShell]_vars

-----------------------------------------------------------------------------
\* Properties.

\* the spec's words: a mint's nonce is set; n is known
NonceSet(mint) == mint.nonce # Undefined /\ mint.nonce # <<>>
LacksData(mint) == mint.data = NoString \/ mint.signatures = Null
Pending(c) == calls[c].pc \in { "write", "wait" }
RowOf(id) == { i \in DOMAIN mints : mints[i]._id = id }

\* C1: a row is 'not ready' exactly when the recipient's on-chain nonce n is
\* unknown, or the mint's nonce is unset, or the mint's nonce > n + 1; a known
\* n (0 included) with a set nonce <= n + 1 is never 'not ready'.
C1_NotReadyTruthTable ==
    \A i \in DOMAIN mints :
        LET m == mints[i]
            n == Nonce(m)
        IN IsMintNotReady(m) <=>
               (n = Unknown \/ ~NonceSet(m) \/ BigInt(m.nonce) > n + 1)

\* C2: a row's Mint button is enabled only when the status is 'signed', or
\* 'confirmed' with at least two signatures, and the row is neither 'not ready'
\* (n unknown, nonce unset, or nonce > n + 1) nor 'completed' (nonce <= n).
C2_EnabledOnlyWhenSignedAndReady ==
    \A i \in DOMAIN mints :
        LET m == mints[i]
            n == Nonce(m)
        IN ButtonEnabled(m) =>
               /\ \/ m.status = "signed"
                  \/ m.status = "confirmed" /\ m.signatures >= 2
               /\ ~(n = Unknown \/ ~NonceSet(m) \/ BigInt(m.nonce) > n + 1)
               /\ ~(n # Unknown /\ NonceSet(m) /\ BigInt(m.nonce) <= n)

C2_Witness ==
    \E i \in DOMAIN mints :
        /\ ButtonEnabled(mints[i])
        /\ mints[i].status = "confirmed"
        /\ mints[i].signatures >= 2

\* C3: the mint action on a mint that lacks data or signatures calls no
\* contract write, shows exactly one error notification, and leaves the
\* loading flag and the current-mint-id marker as they were.
C3_LackingMintRejected ==
    [][ \A i \in DOMAIN mints :
            (MintTokens(i) /\ LacksData(mints[i])) =>
                LET call == calls'[Len(calls')] IN
                /\ call.writeCalls = 0
                /\ call.pc = "done"
                /\ call.errorToasts = 1
                /\ toasts' = Append(toasts, "error")
                /\ isLoading' = isLoading
                /\ currentMintId' = currentMintId ]_vars

C3_Witness ==
    \E c \in DOMAIN calls, d \in DOMAIN calls :
        /\ calls[c].result = "rejected"
        /\ Pending(d)
        /\ isLoading
        /\ currentMintId = calls[d].mint

\* C4 as stated: after a successful write and a successful wait for the
\* receipt, the invocation has called the mint list's reload trigger once.
C4_ReloadOnce ==
    \A c \in DOMAIN calls :
        calls[c].result = "success" => calls[c].reloadCalls = 1

\* C4 as amended: after a successful write and a successful wait for the
\* receipt, the invocation has called the nonce lookup's refresh trigger once
\* (refreshCount goes up by one for each such invocation) and has not called
\* the mint list's reload trigger; no invocation refreshes before its
\* confirmation has resolved.
C4_RefreshOnce ==
    /\ \A c \in DOMAIN calls :
        /\ calls[c].result = "success" =>
               calls[c].refreshCalls = 1 /\ calls[c].reloadCalls = 0
        /\ calls[c].result # "success" => calls[c].refreshCalls = 0
    /\ refreshCount = Cardinality({ c \in DOMAIN calls : calls[c].result = "success" })

C4_Witness ==
    \E c \in DOMAIN calls : calls[c].result = "success" /\ refreshCount >= 1

\* C5: when the write or the wait for the receipt fails, the invocation ends
\* with the loading flag false and the marker null, one error notification
\* shown for it and no progress notification left, and the write made once.
C5_FailureCleansUp ==
    [][ \A c \in DOMAIN calls :
            Rejected(c) =>
                /\ isLoading' = FALSE
                /\ currentMintId' = NoMint
                /\ calls'[c].errorToasts = 1
                /\ toasts' = << "error" >>
                /\ calls'[c].writeCalls = 1
                /\ calls'[c].pc = "done"
                /\ Len(calls') = Len(calls) ]_vars

C5_Witness ==
    \E c \in DOMAIN calls, d \in DOMAIN calls :
        /\ calls[c].result = "failed" /\ calls[c].failedAt = "write"
        /\ calls[d].result = "failed" /\ calls[d].failedAt = "wait"
        /\ ~isLoading

\* C6: the memoized network-validity value is 'invalid' exactly when a chain
\* is present and its id differs from the required chain id.
C6_InvalidNetworkIff ==
    memo.val <=> (chain # <<>> /\ chain[1].id # DEFAULT_CHAIN.id)

C6_Witness ==
    /\ memo.val
    /\ chain # <<>>
    /\ chain[1].id = 137

\* C7: the children are rendered only when an account is connected and the
\* connected chain's id is the required one; in every other state the
\* connect-wallet message or the network-switch prompt is rendered.
C7_ChildrenGated ==
    LET ok == address # NoString /\ chain # <<>> /\ chain[1].id = DEFAULT_CHAIN.id IN
    /\ Rendered = "children" => ok
    /\ ~ok => Rendered \in { "connect", "InvalidNetwork" }

C7_Witness ==
    /\ Rendered = "children"
    /\ chain = ChainOf(DEFAULT_CHAIN.id)
    /\ address = "0xUser"

\* C8 as stated, for a copy whose clipboard write succeeds: invoking copy
\* makes the copied-state flag true and the displayed and copied text equal to
\* CLI_CODE, whatever was edited before.
C8_CopyGivesCliCode ==
    [][ OnCopy(TRUE) =>
            /\ hasCopied'
            /\ value' = CLI_CODE
            /\ clipboard' = CLI_CODE ]_vars

\* C8 as amended: invoking copy leaves the displayed text as the edits left
\* it (CLI_CODE before the first edit), and when the clipboard write succeeds
\* the copied-state flag is true and the copied text is the displayed text;
\* when it fails the flag is false and the clipboard is untouched.
C8_CopyGivesDisplayedText ==
    /\ [][ \A didCopy \in BOOLEAN :
               OnCopy(didCopy) =>
                   /\ value' = value
                   /\ hasCopied' = didCopy
                   /\ didCopy => clipboard' = value
                   /\ ~didCopy => clipboard' = clipboard ]_vars
    /\ [][ value' # value => \E text \in Texts : SetValue(text) ]_vars
    /\ (value = CLI_CODE)

C8_Witness ==
    /\ hasCopied
    /\ value = "pocket accounts send-tx mine"
    /\ clipboard = value

\* C9: while a row's submission is pending the row's button is in the loading
\* state, the loading flag is true and the marker names a pending row.
C9_PendingRowIsLoading ==
    \A c \in DOMAIN calls :
        Pending(c) =>
            /\ \A i \in RowOf(calls[c].mint) : ButtonIsLoading(mints[i])
            /\ isLoading
            /\ \E d \in DOMAIN calls : Pending(d) /\ currentMintId = calls[d].mint

\* C10: a row's button is enabled only if n is known and the mint's nonce is
\* set and equals n + 1; so of two rows of one recipient with distinct nonces
\* at most one is enabled; and a row whose n is known is never both 'not
\* ready' and 'completed'.
C10_EnabledOnlyForNextNonce ==
    \A i \in DOMAIN mints :
        LET m == mints[i]
            n == Nonce(m)
        IN /\ ButtonEnabled(m) =>
                  n # Unknown /\ NonceSet(m) /\ BigInt(m.nonce) = n + 1
           /\ \A list \in TableLists :
                  LET r == list[1] IN
                  ( /\ ToLowerCase(r.recipient_address) = ToLowerCase(m.recipient_address)
                    /\ NonceSet(r) /\ NonceSet(m)
                    /\ BigInt(r.nonce) # BigInt(m.nonce) )
                  => ~(ButtonEnabled(m) /\ ButtonEnabled(r) /\ ~ActionCellThrows(r))
           /\ n # Unknown => ~(IsMintNotReady(m) /\ IsMintCompleted(m))

====
